---- MODULE Spec2Model ----
(***************************************************************************)
(* Model of server.js: a relay between a front-end and two vendor APIs,    *)
(* the MIE SOAP service and the SMS Portal REST gateway.                   *)
(*                                                                         *)
(* Text is modelled as a sequence of one-character strings.  A literal of  *)
(* a template that no scanned pattern can straddle is kept as one element  *)
(* (for instance "<soap:Body>").                                           *)
(***************************************************************************)
EXTENDS Integers, Sequences, FiniteSets, TLC

VARIABLES
  env,          \* process.env: the secrets' environment variables
  secretsFile,  \* secrets.local.json as loadLocalSecrets finds it
  pc,           \* where the handler of the current request stands
  req,          \* the inbound request being handled
  creds,        \* the handler's resolved credentials (its locals)
  outbound,     \* the fetch calls made while handling the request
  res,          \* the response sent to the client
  vendor,       \* what the awaited fetch produced
  threw,        \* whether the handler's catch block ran
  arg,          \* input of a function applied on its own
  ret           \* its result

vars == <<env, secretsFile, pc, req, creds, outbound, res, vendor, threw, arg, ret>>

\* JavaScript null / undefined / an absent field.
Null == <<"<null>">>

\* ------------------------------------------------------------------ text

Range(s) == {s[i] : i \in 1..Len(s)}

StartsWithAt(s, p, i) ==
  /\ i >= 1
  /\ i + Len(p) - 1 <= Len(s)
  /\ \A k \in 1..Len(p) : s[i + k - 1] = p[k]

\* String.prototype.indexOf(p, from), 1-based; 0 when p does not occur.
IndexOfFrom(s, p, from) ==
  LET hits == {i \in from..(Len(s) - Len(p) + 1) : StartsWithAt(s, p, i)}
  IN  IF hits = {} THEN 0 ELSE CHOOSE i \in hits : \A j \in hits : i <= j

RECURSIVE ReplaceAllFrom(_, _, _, _)
\* String.prototype.replaceAll(pat, rep): leftmost, non-overlapping matches.
ReplaceAllFrom(s, pat, rep, from) ==
  LET i == IndexOfFrom(s, pat, from)
  IN  IF i = 0
        THEN SubSeq(s, from, Len(s))
        ELSE SubSeq(s, from, i - 1) \o rep \o ReplaceAllFrom(s, pat, rep, i + Len(pat))

ReplaceAll(s, pat, rep) == ReplaceAllFrom(s, pat, rep, 1)

RECURSIVE Concat(_)
Concat(ss) == IF ss = <<>> THEN <<>> ELSE Head(ss) \o Concat(Tail(ss))

UpperLetters ==
  <<"A","B","C","D","E","F","G","H","I","J","K","L","M",
    "N","O","P","Q","R","S","T","U","V","W","X","Y","Z">>

LowerLetters ==
  <<"a","b","c","d","e","f","g","h","i","j","k","l","m",
    "n","o","p","q","r","s","t","u","v","w","x","y","z">>

ToLowerChar(c) ==
  IF \E i \in 1..Len(UpperLetters) : UpperLetters[i] = c
    THEN LowerLetters[CHOOSE i \in 1..Len(UpperLetters) : UpperLetters[i] = c]
    ELSE c

\* String.prototype.toLowerCase()
ToLowerCase(s) == [i \in 1..Len(s) |-> ToLowerChar(s[i])]

Digits == {"0","1","2","3","4","5","6","7","8","9"}

\* \s of a regular expression, and what trim() removes.
WhiteSpace == {" ", "\n", "\t"}

RECURSIVE TrimStart(_)
TrimStart(s) == IF s # <<>> /\ Head(s) \in WhiteSpace THEN TrimStart(Tail(s)) ELSE s

RECURSIVE TrimEnd(_)
TrimEnd(s) ==
  IF s # <<>> /\ s[Len(s)] \in WhiteSpace THEN TrimEnd(SubSeq(s, 1, Len(s) - 1)) ELSE s

\* String.prototype.trim()
Trim(s) == TrimEnd(TrimStart(s))

\* --------------------------------------------------------------- cdataWrap

CdataOpen == <<"<![CDATA[">>
CdataEnd == <<"]", "]", ">">>
CdataSplit == <<"]", "]", "]", "]", ">", "<![CDATA[", ">">>

\* String(value ?? '')
StringOrEmpty(value) == IF value = Null THEN <<>> ELSE value

\* cdataWrap without the split of "]]>": the value is placed in the section as it is.
cdataWrap_Unescaped(value) == CdataOpen \o StringOrEmpty(value) \o CdataEnd

cdataWrap(value) ==
  LET s == StringOrEmpty(value)
      safe == ReplaceAll(s, CdataEnd, CdataSplit)
  IN  CdataOpen \o safe \o CdataEnd

\* ---------------------------------------------------- formatSmsPortalNumber

\* String(phone).replace(/\D/g, '')
StripNonDigits(s) == SelectSeq(s, LAMBDA c : c \in Digits)

LocalDigits == 9

\* formatSmsPortalNumber with the 9-digit rule tried before the prefix rules.
formatSmsPortalNumber_NineFirst(phone) ==
  IF phone = Null \/ phone = <<>> THEN <<>>
  ELSE LET cleaned == StripNonDigits(phone)
       IN  IF cleaned = <<>> THEN <<>>
           ELSE IF Len(cleaned) = LocalDigits THEN <<"2", "7">> \o cleaned
           ELSE IF StartsWithAt(cleaned, <<"2", "7">>, 1) THEN cleaned
           ELSE IF StartsWithAt(cleaned, <<"0">>, 1) THEN <<"2", "7">> \o Tail(cleaned)
           ELSE cleaned

formatSmsPortalNumber(phone) ==
  IF phone = Null \/ phone = <<>> THEN <<>>
  ELSE LET cleaned == StripNonDigits(phone)
       IN  IF cleaned = <<>> THEN <<>>
           ELSE IF StartsWithAt(cleaned, <<"2", "7">>, 1) THEN cleaned
           ELSE IF StartsWithAt(cleaned, <<"0">>, 1) THEN <<"2", "7">> \o Tail(cleaned)
           ELSE IF Len(cleaned) = LocalDigits THEN <<"2", "7">> \o cleaned
           ELSE cleaned

\* ------------------------------------------------- extractTagText / extractRequestKey

Str_RequestKey == <<"r","e","q","u","e","s","t","k","e","y">>
Str_Result == <<"R","e","s","u","l","t">>

FirstOf(S) == CHOOSE i \in S : \A j \in S : i <= j

\* All 1-based positions at which p occurs in s.
Occurrences(s, p) == {i \in 1..(Len(s) - Len(p) + 1) : StartsWithAt(s, p, i)}

RECURSIVE SkipSpace(_, _)
\* \s* from position i: the first position that holds no white space.
SkipSpace(s, i) == IF i <= Len(s) /\ s[i] \in WhiteSpace THEN SkipSpace(s, i + 1) ELSE i

\* new RegExp(`<${tagName}[^>]*>([\\s\\S]*?)</${tagName}>`, 'i'): the capture, or Null.
extractTagText(xml, tagName) ==
  IF xml = Null \/ xml = <<>> THEN Null
  ELSE LET lx == ToLowerCase(xml)
           open == <<"<">> \o ToLowerCase(tagName)
           close == <<"<", "/">> \o ToLowerCase(tagName) \o <<">">>
           i == IndexOfFrom(lx, open, 1)
           p == IF i = 0 THEN 0 ELSE IndexOfFrom(lx, <<">">>, i + Len(open))
           c == IF p = 0 THEN 0 ELSE IndexOfFrom(lx, close, p + 1)
       IN  IF c = 0 THEN Null ELSE SubSeq(xml, p + 1, c - 1)

\* /<RequestKey>([^<]+)<\/RequestKey>/i : capture of the leftmost match, or Null.
MatchElement(text) ==
  LET lx == ToLowerCase(text)
      open == <<"<">> \o Str_RequestKey \o <<">">>
      close == <<"<", "/">> \o Str_RequestKey \o <<">">>
      EndOf(i) == IndexOfFrom(lx, <<"<">>, i + Len(open))
      ok == {i \in Occurrences(lx, open) :
               /\ EndOf(i) > i + Len(open)
               /\ StartsWithAt(lx, close, EndOf(i))}
  IN  IF ok = {} THEN Null
      ELSE SubSeq(text, FirstOf(ok) + Len(open), EndOf(FirstOf(ok)) - 1)

\* /RequestKey\s*=\s*"([^"]+)"/i
MatchAttribute(text) ==
  LET lx == ToLowerCase(text)
      Eq(i) == SkipSpace(lx, i + Len(Str_RequestKey))
      Quote(i) == SkipSpace(lx, Eq(i) + 1)
      EndOf(i) == IndexOfFrom(lx, <<"\"">>, Quote(i) + 1)
      ok == {i \in Occurrences(lx, Str_RequestKey) :
               /\ StartsWithAt(lx, <<"=">>, Eq(i))
               /\ StartsWithAt(lx, <<"\"">>, Quote(i))
               /\ EndOf(i) > Quote(i) + 1}
  IN  IF ok = {} THEN Null
      ELSE SubSeq(text, Quote(FirstOf(ok)) + 1, EndOf(FirstOf(ok)) - 1)

KeyChars == Range(UpperLetters) \cup Range(LowerLetters) \cup Digits \cup {"_", "-"}

RECURSIVE KeyRunEnd(_, _)
\* [A-Za-z0-9_-]* from position i: the first position past the run.
KeyRunEnd(s, i) == IF i <= Len(s) /\ s[i] \in KeyChars THEN KeyRunEnd(s, i + 1) ELSE i

\* /RequestKey\s*:\s*([A-Za-z0-9_-]+)/i
MatchColon(text) ==
  LET lx == ToLowerCase(text)
      Colon(i) == SkipSpace(lx, i + Len(Str_RequestKey))
      First(i) == SkipSpace(lx, Colon(i) + 1)
      ok == {i \in Occurrences(lx, Str_RequestKey) :
               /\ StartsWithAt(lx, <<":">>, Colon(i))
               /\ KeyRunEnd(text, First(i)) > First(i)}
  IN  IF ok = {} THEN Null
      ELSE SubSeq(text, First(FirstOf(ok)), KeyRunEnd(text, First(FirstOf(ok))) - 1)

\* extractRequestKey with the attribute form tried before the element form.
extractRequestKey_AttributeFirst(text) ==
  IF text = Null \/ text = <<>> THEN Null
  ELSE IF MatchAttribute(text) # Null THEN Trim(MatchAttribute(text))
  ELSE IF MatchElement(text) # Null THEN Trim(MatchElement(text))
  ELSE IF MatchColon(text) # Null THEN Trim(MatchColon(text))
  ELSE Null

extractRequestKey(text) ==
  IF text = Null \/ text = <<>> THEN Null
  ELSE IF MatchElement(text) # Null THEN Trim(MatchElement(text))
  ELSE IF MatchAttribute(text) # Null THEN Trim(MatchAttribute(text))
  ELSE IF MatchColon(text) # Null THEN Trim(MatchColon(text))
  ELSE Null

\* ------------------------------------------------------- JavaScript values

\* Truthiness of a string-or-absent value: null, undefined and '' are falsy.
Truthy(v) == v # Null /\ v # <<>>

\* a || b
Or(a, b) == IF Truthy(a) THEN a ELSE b

\* a ?? b
Coalesce(a, b) == IF a = Null THEN b ELSE a

ToUpperChar(c) ==
  IF \E i \in 1..Len(LowerLetters) : LowerLetters[i] = c
    THEN UpperLetters[CHOOSE i \in 1..Len(LowerLetters) : LowerLetters[i] = c]
    ELSE c

\* String.prototype.toUpperCase()
ToUpperCase(s) == [i \in 1..Len(s) |-> ToUpperChar(s[i])]

\* ---------------------------------------------------------- loadLocalSecrets

SecretKeys ==
  {"MIE_PASSWORD", "mie_password", "MIE_USERNAME", "mie_username",
   "SMS_CLIENT_ID", "sms_client_id", "SMS_CLIENT_SECRET", "sms_client_secret"}

\* What loadLocalSecrets returns when no file is found, the file does not parse,
\* or its content is no object.
NoSecrets == [kind |-> "null", json |-> [k \in SecretKeys |-> Null]]

loadLocalSecrets == IF secretsFile.kind = "object" THEN secretsFile ELSE NoSecrets

\* secrets?.KEY
SecretOf(secrets, key) == IF secrets.kind = "object" THEN secrets.json[key] ELSE Null

\* ------------------------------------------------------------ POST /api/mie

\* const password = passwordFromBody || process.env.MIE_PASSWORD ||
\*                  secrets?.MIE_PASSWORD || secrets?.mie_password || null
ResolvePassword(body) ==
  LET secrets == loadLocalSecrets
  IN  Or(Or(Or(Or(body.password, env.MIE_PASSWORD), SecretOf(secrets, "MIE_PASSWORD")),
            SecretOf(secrets, "mie_password")), Null)

\* The user name, client key and agent key placed in the fragments: the request's
\* own fields, `${username ?? ''}`, `${clientKey ?? ''}`, `${agentKey ?? ''}`.
EffectiveUsername(body) == Coalesce(body.username, <<>>)
EffectiveClientKey(body) == Coalesce(body.clientKey, <<>>)
EffectiveAgentKey(body) == Coalesce(body.agentKey, <<>>)

\* payload = {} when the body has no payload; a null payload stays null.
EmptyPayload ==
  [kind |-> "object", checkTypes |-> <<>>, remoteKey |-> Null, firstName |-> Null,
   lastName |-> Null, idNumber |-> Null, dateOfBirth |-> Null, phone |-> Null,
   email |-> Null, source |-> Null, indemnityAcknowledged |-> FALSE]

PayloadOf(body) == IF body.payload.kind = "absent" THEN EmptyPayload ELSE body.payload

\* Reading payload.checkTypes of a null payload raises a TypeError.
PayloadThrows(body) == PayloadOf(body).kind = "null"

MieLogonXml(body, password) ==
  Or(body.aLogonXml,
     <<"<xml><Token>", "<UserName>">> \o EffectiveUsername(body) \o <<"</UserName>">>
       \o <<"<Password>">> \o password \o <<"</Password>">>
       \o <<"<Source>">> \o Coalesce(body.source, <<>>) \o <<"</Source>">>
       \o <<"</Token></xml>">>)

RECURSIVE MieItems(_, _)
MieItems(checkTypes, indemnity) ==
  IF checkTypes = <<>> THEN <<>>
  ELSE <<"<Item>", "<RemoteItemKey></RemoteItemKey>", "<ItemTypeCode>">>
         \o ToUpperCase(Head(checkTypes)) \o <<"</ItemTypeCode>">>
         \o <<"<Indemnity>", IF indemnity THEN "true" ELSE "false", "</Indemnity>">>
         \o <<"<ItemInputGroupList></ItemInputGroupList>", "</Item>">>
         \o MieItems(Tail(checkTypes), indemnity)

\* `RS_${Date.now()}` and new Date().toISOString(): the clock's value is opaque.
GeneratedRemoteKey == <<"RS_", "<Date.now()>">>
CurrentDate == <<"<toISOString()>">>

MieArgument(body) ==
  LET payload == PayloadOf(body)
      remoteKey == Or(payload.remoteKey, GeneratedRemoteKey)
  IN  Or(body.aArgument,
         <<"<xml><Request>", "<ClientKey>">> \o EffectiveClientKey(body) \o <<"</ClientKey>">>
           \o <<"<AgentClient>">> \o EffectiveClientKey(body) \o <<"</AgentClient>">>
           \o <<"<AgentKey>">> \o EffectiveAgentKey(body) \o <<"</AgentKey>">>
           \o <<"<RemoteRequest>">> \o remoteKey \o <<"</RemoteRequest>">>
           \o <<"<OrderNumber></OrderNumber>", "<RequestReason></RequestReason>",
                "<Note></Note>">>
           \o <<"<FirstNames>">> \o Coalesce(payload.firstName, <<>>) \o <<"</FirstNames>">>
           \o <<"<Surname>">> \o Coalesce(payload.lastName, <<>>) \o <<"</Surname>">>
           \o <<"<MaidenName></MaidenName>">>
           \o <<"<IdNumber>">> \o Coalesce(payload.idNumber, <<>>) \o <<"</IdNumber>">>
           \o <<"<Passport></Passport>">>
           \o (IF Truthy(payload.dateOfBirth)
                 THEN <<"<DateOfBirth>">> \o payload.dateOfBirth \o <<"</DateOfBirth>">>
                 ELSE <<"<DateOfBirth></DateOfBirth>">>)
           \o <<"<ContactNumber>">> \o Coalesce(payload.phone, <<>>) \o <<"</ContactNumber>">>
           \o <<"<PersonEmail>">> \o Coalesce(payload.email, <<>>) \o <<"</PersonEmail>">>
           \o <<"<AlternateEmail></AlternateEmail>">>
           \o <<"<Source>">> \o Coalesce(payload.source, Coalesce(body.source, <<>>))
           \o <<"</Source>">>
           \o <<"<EntityKind>P</EntityKind>">>
           \o <<"<RemoteCaptureDate>">> \o CurrentDate \o <<"</RemoteCaptureDate>">>
           \o <<"<RemoteSendDate>">> \o CurrentDate \o <<"</RemoteSendDate>">>
           \o <<"<RemoteGroup></RemoteGroup>",
                "<PrerequisiteGroupList></PrerequisiteGroupList>",
                "<PrerequisiteImageList></PrerequisiteImageList>", "<ItemList>">>
           \o MieItems(payload.checkTypes, payload.indemnityAcknowledged)
           \o <<"</ItemList>", "</Request></xml>">>)

Str_ksoputrequest == <<"k","s","o","p","u","t","r","e","q","u","e","s","t">>
Str_ksoputbranch == <<"k","s","o","p","u","t","b","r","a","n","c","h">>
Str_redirect == <<"r","e","d","i","r","e","c","t">>

ArgumentMethods == {Str_ksoputrequest, Str_ksoputbranch, Str_ksoputrequest \o Str_redirect}

\* hasArgument without the toLowerCase of the method name.
hasArgument_CaseSensitive(method) == method \in ArgumentMethods

hasArgument(method) == ToLowerCase(method) \in ArgumentMethods

LogonElement(aLogonXml) == <<"<aLogonXml>">> \o cdataWrap(aLogonXml) \o <<"</aLogonXml>">>

ArgumentElement(aArgument) == <<"<aArgument>">> \o cdataWrap(aArgument) \o <<"</aArgument>">>

SoapEnvelope(method, aLogonXml, aArgument) ==
  <<"<?xml version=\"1.0\" encoding=\"utf-8\"?>\n", "<soap:Envelope ...>", "<soap:Body>">>
    \o <<"<">> \o method \o <<" xmlns=\"http://www.kroll.co.za/\">">>
    \o LogonElement(aLogonXml)
    \o (IF hasArgument(method) THEN ArgumentElement(aArgument) ELSE <<>>)
    \o <<"</">> \o method \o <<">">>
    \o <<"</soap:Body>", "</soap:Envelope>">>

SoapAction(method) == <<"http://www.kroll.co.za/">> \o method

\* ---------------------------------------------------------------- responses

NoResponse ==
  [status |-> 0, contentType |-> Null, ok |-> "absent", success |-> "absent",
   error |-> Null, hint |-> "absent", soapAction |-> Null, soapUrl |-> Null,
   responseSnippet |-> Null, method |-> Null, requestKey |-> Null, reference |-> Null,
   result |-> Null, rawSoapResponse |-> Null, type |-> "absent", stack |-> "absent",
   body |-> Null]

\* What express sets for res.json(...) and for res.send(<string>).
ExpressJsonType == <<"application/json", "; charset=utf-8">>
ExpressHtmlType == <<"text/html", "; charset=utf-8">>

\* res.status(status).json({ ... }): the handler's own JSON replies.
JsonReply(status) == [NoResponse EXCEPT !.status = status, !.contentType = ExpressJsonType]

Unresolved ==
  [resolved |-> FALSE, password |-> Null, username |-> Null, clientKey |-> Null,
   agentKey |-> Null, clientId |-> Null, clientSecret |-> Null]

NoCall == [url |-> Null, method |-> "none", contentType |-> Null, soapAction |-> Null,
           accept |-> Null, authorization |-> Null, hasBody |-> FALSE, body |-> Null]

NoVendor == [kind |-> "none", status |-> 0, contentType |-> Null, body |-> Null]

ErrMessage == <<"<err.message>">>

SnippetLimit == 2000

\* The snippet without the slice: the whole vendor body.
ResponseSnippet_Whole(respText) == respText

\* respText.slice(0, 2000)
ResponseSnippet(respText) ==
  SubSeq(respText, 1, IF Len(respText) < SnippetLimit THEN Len(respText) ELSE SnippetLimit)

\* resp.ok
IsOk(status) == status >= 200 /\ status <= 299

\* The handler of POST /api/mie up to its await of fetch: what it answers at once,
\* or the call it makes.
MieHandle(body) ==
  IF ~Truthy(body.method)
    THEN [kind |-> "respond", creds |-> Unresolved, threw |-> FALSE,
          res |-> [JsonReply(400) EXCEPT !.ok = "false", !.error = <<"Missing method">>]]
  ELSE IF ~Truthy(body.soapUrl)
    THEN [kind |-> "respond", creds |-> Unresolved, threw |-> FALSE,
          res |-> [JsonReply(400) EXCEPT !.ok = "false", !.error = <<"Missing soapUrl">>]]
  ELSE LET password == ResolvePassword(body)
           resolved == [Unresolved EXCEPT !.resolved = TRUE, !.password = password,
                          !.username = EffectiveUsername(body),
                          !.clientKey = EffectiveClientKey(body),
                          !.agentKey = EffectiveAgentKey(body)]
       IN  IF ~Truthy(password)
             THEN [kind |-> "respond", creds |-> resolved, threw |-> FALSE,
                   res |-> [JsonReply(400) EXCEPT !.ok = "false",
                              !.error = <<"Missing MIE password">>, !.hint = "present"]]
           ELSE IF PayloadThrows(body)
             THEN [kind |-> "respond", creds |-> resolved, threw |-> TRUE,
                   res |-> [JsonReply(500) EXCEPT !.ok = "false", !.error = ErrMessage]]
           ELSE [kind |-> "fetch", creds |-> resolved, threw |-> FALSE,
                 call |-> [NoCall EXCEPT
                             !.url = body.soapUrl, !.method = "POST",
                             !.contentType = <<"text/xml; charset=utf-8">>,
                             !.soapAction = SoapAction(body.method),
                             !.accept = <<"text/xml">>, !.hasBody = TRUE,
                             !.body = SoapEnvelope(body.method,
                                                   MieLogonXml(body, password),
                                                   MieArgument(body))]]

\* The handler after resp.text(): 502 on a non-2xx status, else the extraction.
MieAnswer(body, status, respText) ==
  IF ~IsOk(status)
    THEN [JsonReply(502) EXCEPT
            !.ok = "false", !.error = <<"MIE SOAP HTTP ", ToString(status)>>,
            !.soapAction = SoapAction(body.method), !.soapUrl = body.soapUrl,
            !.responseSnippet = ResponseSnippet(respText)]
    ELSE LET resultText == extractTagText(respText, body.method \o Str_Result)
             requestKey == extractRequestKey(resultText)
         IN  [JsonReply(200) EXCEPT
                !.ok = "true", !.method = body.method,
                !.soapAction = SoapAction(body.method),
                !.requestKey = Or(requestKey, Null), !.reference = Or(requestKey, Null),
                !.result = Or(resultText, Null), !.rawSoapResponse = respText]

\* --------------------------------------------------------------- SMS Portal

\* const clientId = process.env.SMS_CLIENT_ID || secrets?.SMS_CLIENT_ID ||
\*                  secrets?.sms_client_id || null   (and the same for the secret)
getSmsCredentials ==
  LET secrets == loadLocalSecrets
  IN  [clientId |->
         Or(Or(Or(env.SMS_CLIENT_ID, SecretOf(secrets, "SMS_CLIENT_ID")),
               SecretOf(secrets, "sms_client_id")), Null),
       clientSecret |->
         Or(Or(Or(env.SMS_CLIENT_SECRET, SecretOf(secrets, "SMS_CLIENT_SECRET")),
               SecretOf(secrets, "sms_client_secret")), Null)]

\* String.prototype.replace(pat, rep) with a string pattern: the first occurrence.
ReplaceFirst(s, pat, rep) ==
  LET i == IndexOfFrom(s, pat, 1)
  IN  IF i = 0 THEN s
      ELSE SubSeq(s, 1, i - 1) \o rep \o SubSeq(s, i + Len(pat), Len(s))

SmsUrl(url, smsPathOverride) ==
  LET smsPath == IF smsPathOverride # Null THEN smsPathOverride
                 ELSE ReplaceFirst(url, <<"/api/sms">>, <<>>)
  IN  <<"https://rest.smsportal.com">> \o Or(smsPath, <<>>)

\* `Basic ${Buffer.from(`${clientId}:${clientSecret}`).toString('base64')}`
BasicAuth(clientId, clientSecret) ==
  <<"Basic ", "base64(">> \o clientId \o <<":">> \o clientSecret \o <<")">>

\* The check with && in place of ||: only the absence of both refuses the request.
SmsCredentialsMissing_Both(c) == ~Truthy(c.clientId) /\ ~Truthy(c.clientSecret)

\* !clientId || !clientSecret
SmsCredentialsMissing(c) == ~Truthy(c.clientId) \/ ~Truthy(c.clientSecret)

\* forwardSms up to its await of fetch.  r is the request it is given:
\* its method, its url and its body.
forwardSms(r, smsPathOverride) ==
  LET c == getSmsCredentials
      resolved == [Unresolved EXCEPT !.resolved = TRUE, !.clientId = c.clientId,
                     !.clientSecret = c.clientSecret]
  IN  IF SmsCredentialsMissing(c)
        THEN [kind |-> "respond", creds |-> resolved, threw |-> FALSE,
              res |-> [JsonReply(400) EXCEPT !.ok = "false",
                         !.error = <<"Missing SMS credentials">>, !.hint = "present"]]
        ELSE [kind |-> "fetch", creds |-> resolved, threw |-> FALSE,
              call |-> [NoCall EXCEPT
                          !.url = SmsUrl(r.url, smsPathOverride), !.method = r.method,
                          !.contentType = <<"application/json">>,
                          !.authorization = BasicAuth(c.clientId, c.clientSecret),
                          !.hasBody = (r.method # "GET"),
                          !.body = IF r.method # "GET" THEN r.body ELSE Null]]

\* r.cellphone_number || r.phone || r.contact_number || r.mobile for a record,
\* the recipient itself otherwise.
RawNumber(r) ==
  IF r.kind = "object"
    THEN Or(Or(Or(r.cellphone_number, r.phone), r.contact_number), r.mobile)
    ELSE r.value

\* options = {} when the body has none; a null options stays null.
EmptyOptions ==
  [kind |-> "object", scheduledFor |-> Null, reference |-> Null, testMode |-> FALSE,
   senderId |-> Null]

OptionsOf(body) == IF body.options.kind = "absent" THEN EmptyOptions ELSE body.options

\* One element of recipients.map(...)
SmsMessage(content, r, options) ==
  [content |-> content, destination |-> formatSmsPortalNumber(RawNumber(r)),
   sendTime |-> Or(options.scheduledFor, Null), reference |-> Or(options.reference, Null)]

\* recipients.map(...) without the filter: a message for every recipient.
SmsMessages_Unfiltered(content, recipients, options) ==
  [i \in 1..Len(recipients) |-> SmsMessage(content, recipients[i], options)]

\* recipients.map(...).filter(m => m.destination)
SmsMessages(content, recipients, options) ==
  SelectSeq([i \in 1..Len(recipients) |-> SmsMessage(content, recipients[i], options)],
            LAMBDA m : Truthy(m.destination))

\* The handler of POST /api/sms/send up to the await inside forwardSms.
SmsSendHandle(body) ==
  IF ~Truthy(body.message) \/ ~Truthy(Trim(body.message))
    THEN [kind |-> "respond", creds |-> Unresolved, threw |-> FALSE,
          res |-> [JsonReply(400) EXCEPT !.success = "false",
                     !.error = <<"Message cannot be empty">>]]
  ELSE IF body.recipients.kind # "array" \/ body.recipients.items = <<>>
    THEN [kind |-> "respond", creds |-> Unresolved, threw |-> FALSE,
          res |-> [JsonReply(400) EXCEPT !.success = "false",
                     !.error = <<"No recipients specified">>]]
  ELSE IF OptionsOf(body).kind = "null"
    \* options.scheduledFor of a null options raises a TypeError in the first map call
    THEN [kind |-> "respond", creds |-> Unresolved, threw |-> TRUE,
          res |-> [JsonReply(500) EXCEPT !.success = "false", !.error = ErrMessage,
                     !.type = "proxy_error"]]
  ELSE LET options == OptionsOf(body)
           messages == SmsMessages(Trim(body.message), body.recipients.items, options)
           payload == [messages |-> messages, testMode |-> options.testMode,
                       senderId |-> Or(options.senderId, Null)]
       IN  IF messages = <<>>
             THEN [kind |-> "respond", creds |-> Unresolved, threw |-> FALSE,
                   res |-> [JsonReply(400) EXCEPT !.success = "false",
                              !.error = <<"No valid recipient numbers found">>]]
             ELSE forwardSms([method |-> "POST", url |-> <<"/api/sms", "/send">>,
                              body |-> payload], <<"/BulkMessages">>)

\* --- JSON text, for response.json() and res.json(data)

JsonSpace == {" ", "\n"}
JsonKeys == {"\"a\"", "\"b\""}
JsonNumbers == {"1", "1.0", "2"}

\* The number a numeric token denotes, as JSON.stringify writes it back.
JsonNumberText(tok) == IF tok = "1.0" THEN "1" ELSE tok

\* JSON.parse for the documents {}, {"k": n} and n; anything else does not parse.
JsonParse(text) ==
  LET tk == SelectSeq(text, LAMBDA c : c \notin JsonSpace)
  IN  IF tk = <<"{", "}">>
        THEN [valid |-> TRUE, kind |-> "object", key |-> "", num |-> ""]
      ELSE IF /\ Len(tk) = 5 /\ tk[1] = "{" /\ tk[2] \in JsonKeys /\ tk[3] = ":"
              /\ tk[4] \in JsonNumbers /\ tk[5] = "}"
        THEN [valid |-> TRUE, kind |-> "entry", key |-> tk[2],
              num |-> JsonNumberText(tk[4])]
      ELSE IF Len(tk) = 1 /\ tk[1] \in JsonNumbers
        THEN [valid |-> TRUE, kind |-> "number", key |-> "", num |-> JsonNumberText(tk[1])]
      ELSE [valid |-> FALSE, kind |-> "none", key |-> "", num |-> ""]

\* JSON.stringify
JsonStringify(v) ==
  IF v.kind = "object" THEN <<"{", "}">>
  ELSE IF v.kind = "entry" THEN <<"{", v.key, ":", v.num, "}">>
  ELSE <<v.num>>

\* contentType && contentType.includes('application/json')
IsJsonType(contentType) ==
  contentType # Null /\ \E i \in 1..Len(contentType) : contentType[i] = "application/json"

\* forwardSms after its await of fetch: the vendor's reply relayed.
SmsRelay(status, contentType, text) ==
  IF IsJsonType(contentType)
    THEN IF JsonParse(text).valid
           THEN [threw |-> FALSE,
                 res |-> [NoResponse EXCEPT !.status = status,
                            !.contentType = ExpressJsonType,
                            !.body = JsonStringify(JsonParse(text))]]
           ELSE [threw |-> TRUE,
                 res |-> [JsonReply(500) EXCEPT !.ok = "false", !.error = ErrMessage,
                            !.stack = "present"]]
    ELSE [threw |-> FALSE,
          res |-> [NoResponse EXCEPT !.status = status, !.contentType = ExpressHtmlType,
                     !.body = text]]

\* ------------------------------------------------------------- GET /health

HealthReply ==
  [JsonReply(200) EXCEPT !.ok = "true",
     !.body = <<"secretsFileDetected=", IF loadLocalSecrets.kind = "object" THEN "true" ELSE "false",
                "MIE_PASSWORD=", IF Truthy(env.MIE_PASSWORD) THEN "true" ELSE "false",
                "MIE_USERNAME=", IF Truthy(env.MIE_USERNAME) THEN "true" ELSE "false",
                "SMS_CLIENT_SECRET=", IF Truthy(env.SMS_CLIENT_SECRET) THEN "true" ELSE "false">>]

\* ------------------------------------------------------- the inputs explored

\* Bounds of the explored inputs.
MaxRecipients == 2
MaxOver == 2

\* The MIE variables are set together or not at all; the SMS ones one by one.
EnvWith(mie, id, secret) ==
  [MIE_PASSWORD |-> IF mie THEN <<"env-pw">> ELSE Null,
   MIE_USERNAME |-> IF mie THEN <<"env-user">> ELSE Null,
   SMS_CLIENT_ID |-> IF id THEN <<"env-id">> ELSE Null,
   SMS_CLIENT_SECRET |-> IF secret THEN <<"env-secret">> ELSE Null]

Environments ==
  {EnvWith(TRUE, TRUE, TRUE), EnvWith(FALSE, TRUE, TRUE), EnvWith(FALSE, TRUE, FALSE),
   EnvWith(FALSE, FALSE, TRUE), EnvWith(FALSE, FALSE, FALSE)}

\* A secrets file holding the upper-case keys, the lower-case keys, or both.
FileWith(upper, lower) ==
  [kind |-> "object",
   json |-> [k \in SecretKeys |->
               IF k \in {"MIE_PASSWORD", "MIE_USERNAME", "SMS_CLIENT_ID", "SMS_CLIENT_SECRET"}
                 THEN (IF upper THEN <<"FILE-", k>> ELSE Null)
                 ELSE (IF lower THEN <<"file-", k>> ELSE Null)]]

SecretFiles ==
  {[kind |-> "missing", json |-> [k \in SecretKeys |-> Null]],
   [kind |-> "malformed", json |-> [k \in SecretKeys |-> Null]]}
    \cup {FileWith(u, l) : u \in BOOLEAN, l \in BOOLEAN}

Method_KsoPutRequest == <<"K","s","o","P","u","t","R","e","q","u","e","s","t">>
Method_KSOPUTBRANCH == <<"K","S","O","P","U","T","B","R","A","N","C","H">>
Method_redirect == <<"k","s","o","p","u","t","r","e","q","u","e","s","t","r","e","d","i","r","e","c","t">>
Method_KsoGetResult == <<"K","s","o","G","e","t","R","e","s","u","l","t">>
Method_KsoPutRequestX == <<"K","s","o","P","u","t","R","e","q","u","e","s","t","X">>

MieMethods ==
  {Null, Method_KsoPutRequest, Method_KSOPUTBRANCH, Method_redirect, Method_KsoGetResult,
   Method_KsoPutRequestX}

\* A caller's fragment: it holds the CDATA terminator and the text of an element.
OverrideXml == <<"<x>", "a", "]", "]", ">", "<aArgument>", "b", "]", "]", ">", "</x>">>

FullPayload ==
  [EmptyPayload EXCEPT !.checkTypes = <<<<"c","r","i","m">>, <<"I","d">>>>,
     !.remoteKey = <<"rk-1">>, !.firstName = <<"A", "]", "]", ">", "n">>,
     !.lastName = <<"Lee">>, !.idNumber = <<"8001015009087">>,
     !.dateOfBirth = <<"1980-01-01">>, !.phone = <<"0821234567">>,
     !.email = <<"a@b.c">>, !.indemnityAcknowledged = TRUE]

NoIdentity == [username |-> Null, clientKey |-> Null, agentKey |-> Null, source |-> Null]

GivenIdentity ==
  [username |-> <<"body-user">>, clientKey |-> <<"body-ck">>, agentKey |-> <<"body-ak">>,
   source |-> <<"web">>]

\* The identity fields and the payload of a body.
MieContents ==
  {<<NoIdentity, [EmptyPayload EXCEPT !.kind = "absent"]>>,
   <<GivenIdentity, [EmptyPayload EXCEPT !.kind = "null"]>>,
   <<GivenIdentity, FullPayload>>}

MieBodies ==
  {[method |-> m, soapUrl |-> u, password |-> pw, username |-> c[1].username,
    clientKey |-> c[1].clientKey, agentKey |-> c[1].agentKey, source |-> c[1].source,
    payload |-> c[2], aLogonXml |-> ov[1], aArgument |-> ov[2]] :
     m \in MieMethods, u \in {Null, <<"https://mie.example/soap">>},
     pw \in {Null, <<"body-pw">>}, c \in MieContents,
     ov \in {<<Null, Null>>, <<OverrideXml, OverrideXml>>}}

Str_RequestKeyTag == <<"R","e","q","u","e","s","t","K","e","y">>

\* The vendor's answers to a call of `method`.
ResultDoc(method, inner) ==
  <<"<">> \o method \o Str_Result \o <<">">> \o inner
    \o <<"<", "/">> \o method \o Str_Result \o <<">">>

MieShortBodies(method) ==
  {<<>>,
   <<"f","a","u","l","t">>,
   ResultDoc(method, <<"<">> \o Str_RequestKeyTag \o <<">", " ", "A","B","C","1", "<", "/">>
                       \o Str_RequestKeyTag \o <<">">>),
   ResultDoc(method, <<"<","r"," ">> \o Str_RequestKeyTag \o <<"=","\"","X","Y","Z","\"","/",">">>),
   ResultDoc(method, <<"o","k">>)}

DigitChars == <<"0","1","2","3","4","5","6","7","8","9">>

\* A body of n characters, each told by its position.
LongBody(n) == [i \in 1..n |-> DigitChars[(i % 10) + 1]]

MieReplies(method) ==
  ({200} \X (MieShortBodies(method) \cup {LongBody(SnippetLimit + MaxOver)}))
    \cup ({500} \X {<<>>, LongBody(SnippetLimit), LongBody(SnippetLimit + MaxOver)})
    \cup ({404} \X {LongBody(SnippetLimit - 1)})

StringRecipient(v) ==
  [kind |-> "string", value |-> v, cellphone_number |-> Null, phone |-> Null,
   contact_number |-> Null, mobile |-> Null]

ObjectRecipient(cell, phone, contact, mobile) ==
  [kind |-> "object", value |-> Null, cellphone_number |-> cell, phone |-> phone,
   contact_number |-> contact, mobile |-> mobile]

Phone_local == <<"0","8","2","1","2","3","4","5","6","7">>
Phone_intl == <<"+","2","7"," ","8","2"," ","1","2","3"," ","4","5","6","7">>
Phone_nine == <<"8","3","1","2","3","4","5","6","7">>
Phone_none == <<"n","/","a">>

Recipients ==
  {StringRecipient(Phone_local), StringRecipient(Phone_none),
   ObjectRecipient(Null, Phone_intl, Null, Null),
   ObjectRecipient(<<>>, Null, Null, Phone_nine),
   ObjectRecipient(Null, Null, Null, Null)}

RECURSIVE SeqsUpTo(_, _)
\* The sequences over S of length at most n.
SeqsUpTo(S, n) ==
  IF n = 0 THEN {<<>>}
  ELSE LET shorter == SeqsUpTo(S, n - 1)
       IN  shorter \cup {Append(s, x) : s \in shorter, x \in S}

SmsOptions ==
  {[EmptyOptions EXCEPT !.kind = "absent"],
   [EmptyOptions EXCEPT !.kind = "null"],
   [EmptyOptions EXCEPT !.scheduledFor = <<"2030-01-01T08:00">>, !.reference = <<"ref-1">>,
      !.testMode = TRUE, !.senderId = <<"Shop">>]}

SmsSendBodies ==
  {[message |-> m, recipients |-> rc, options |-> o] :
     m \in {Null, <<" ", " ">>, <<" ", "h", "i", " ">>},
     rc \in {[kind |-> "absent", items |-> <<>>]}
              \cup {[kind |-> "array", items |-> s] : s \in SeqsUpTo(Recipients, MaxRecipients)},
     o \in SmsOptions}

GenericRequests ==
  {[endpoint |-> "generic", method |-> m, url |-> u, body |-> b] :
     m \in {"GET", "POST", "DELETE"},
     u \in {<<"/api/sms">>, <<"/api/sms", "/v1/Balance">>,
            <<"/api/sms", "/BulkMessages", "?x=1">>},
     b \in {<<"{", "}">>}}

JsonDoc == <<"{", "\"a\"", ":", "1", "}">>
JsonDocSpaced == <<"{", " ", "\"a\"", ":", " ", "1.0", " ", "}">>

\* The vendor's replies to a forwarded SMS call: status, content-type, body.
SmsReplies ==
  {<<200, <<"application/json">>, JsonDoc>>,
   <<200, ExpressJsonType, JsonDoc>>,
   <<200, <<"application/json">>, JsonDocSpaced>>,
   <<200, <<"application/json">>, <<"o", "o", "p", "s">>>>,
   <<401, <<"text/plain">>, <<"n", "o">>>>,
   <<404, Null, <<>>>>,
   <<500, ExpressHtmlType, <<"<html>", "</html>">>>>,
   <<400, <<"application/problem+json">>, JsonDoc>>}

\* ------------------------------------------------------------ the handlers

NoRequest == [endpoint |-> "none", method |-> "none", url |-> Null, body |-> Null]

Init ==
  /\ env \in Environments
  /\ secretsFile \in SecretFiles
  /\ pc = "idle"
  /\ req = NoRequest
  /\ creds = Unresolved
  /\ outbound = <<>>
  /\ res = NoResponse
  /\ vendor = NoVendor
  /\ threw = FALSE
  /\ arg = Null
  /\ ret = Null

\* A handler's synchronous part: it answers, or it calls fetch and awaits.
Begin(r, h, awaiting) ==
  /\ pc = "idle"
  /\ req' = r
  /\ creds' = h.creds
  /\ threw' = h.threw
  /\ IF h.kind = "fetch"
       THEN /\ outbound' = Append(outbound, h.call)
            /\ res' = res
            /\ pc' = awaiting
       ELSE /\ outbound' = outbound
            /\ res' = h.res
            /\ pc' = "done"
  /\ UNCHANGED <<env, secretsFile, vendor, arg, ret>>

Health ==
  /\ pc = "idle"
  /\ req' = [NoRequest EXCEPT !.endpoint = "health", !.method = "GET", !.url = <<"/health">>]
  /\ res' = HealthReply
  /\ pc' = "done"
  /\ UNCHANGED <<env, secretsFile, creds, outbound, vendor, threw, arg, ret>>

MiePost ==
  \E body \in MieBodies :
    Begin([endpoint |-> "mie", method |-> "POST", url |-> <<"/api/mie">>, body |-> body],
          MieHandle(body), "awaitMie")

\* fetch resolved and resp.text() read: the handler answers.
MieReply ==
  /\ pc = "awaitMie"
  /\ \E reply \in MieReplies(req.body.method) :
       /\ vendor' = [kind |-> "reply", status |-> reply[1], contentType |-> <<"text/xml">>,
                     body |-> reply[2]]
       /\ res' = MieAnswer(req.body, reply[1], reply[2])
  /\ pc' = "done"
  /\ UNCHANGED <<env, secretsFile, req, creds, outbound, threw, arg, ret>>

\* A handler that calls fetch again when it rejects, and awaits the second call.
MieFetchFails_Retry ==
  /\ pc = "awaitMie"
  /\ Len(outbound) < 2
  /\ outbound' = Append(outbound, outbound[1])
  /\ UNCHANGED <<env, secretsFile, pc, req, creds, res, vendor, threw, arg, ret>>

\* fetch rejected (a network error, a bad URL): the catch block answers 500.
MieFetchFails ==
  /\ pc = "awaitMie"
  /\ vendor' = [NoVendor EXCEPT !.kind = "error"]
  /\ res' = [JsonReply(500) EXCEPT !.ok = "false", !.error = ErrMessage]
  /\ threw' = TRUE
  /\ pc' = "done"
  /\ UNCHANGED <<env, secretsFile, req, creds, outbound, arg, ret>>

SmsSend ==
  \E body \in SmsSendBodies :
    Begin([endpoint |-> "send", method |-> "POST", url |-> <<"/api/sms", "/send">>,
           body |-> body],
          SmsSendHandle(body), "awaitSms")

SmsTest ==
  LET r == [endpoint |-> "test", method |-> "GET", url |-> <<"/api/sms", "/test">>,
            body |-> <<"{", "}">>]
  IN  Begin(r, forwardSms(r, <<"/v1/Balance">>), "awaitSms")

SmsGeneric ==
  \E r \in GenericRequests : Begin(r, forwardSms(r, Null), "awaitSms")

SmsReply ==
  /\ pc = "awaitSms"
  /\ \E reply \in SmsReplies :
       LET relay == SmsRelay(reply[1], reply[2], reply[3])
       IN  /\ vendor' = [kind |-> "reply", status |-> reply[1], contentType |-> reply[2],
                         body |-> reply[3]]
           /\ res' = relay.res
           /\ threw' = relay.threw
  /\ pc' = "done"
  /\ UNCHANGED <<env, secretsFile, req, creds, outbound, arg, ret>>

SmsFetchFails ==
  /\ pc = "awaitSms"
  /\ vendor' = [NoVendor EXCEPT !.kind = "error"]
  /\ res' = [JsonReply(500) EXCEPT !.ok = "false", !.error = ErrMessage, !.stack = "present"]
  /\ threw' = TRUE
  /\ pc' = "done"
  /\ UNCHANGED <<env, secretsFile, req, creds, outbound, arg, ret>>

\* The response is sent; the server takes the next request.
NextRequest ==
  /\ pc = "done"
  /\ pc' = "idle"
  /\ req' = NoRequest
  /\ creds' = Unresolved
  /\ outbound' = <<>>
  /\ res' = NoResponse
  /\ vendor' = NoVendor
  /\ threw' = FALSE
  /\ UNCHANGED <<env, secretsFile, arg, ret>>

Next ==
  \/ Health
  \/ MiePost
  \/ MieReply
  \/ MieFetchFails
  \/ SmsSend
  \/ SmsTest
  \/ SmsGeneric
  \/ SmsReply
  \/ SmsFetchFails
  \/ NextRequest

Spec == Init /\ [][Next]_vars

\* ------------------------------------------------- reading an envelope back

RECURSIVE ReadCdata(_)
\* What an XML parser reads from s as consecutive CDATA sections: each runs from
\* "<![CDATA[" to the first "]]>" after it.  text is their contents concatenated,
\* rest what follows the last section.
ReadCdata(s) ==
  IF s # <<>> /\ Head(s) = "<![CDATA["
    THEN LET j == IndexOfFrom(s, CdataEnd, 2)
         IN  IF j = 0 THEN [ok |-> FALSE, text |-> <<>>, rest |-> s]
             ELSE LET r == ReadCdata(SubSeq(s, j + Len(CdataEnd), Len(s)))
                  IN  [ok |-> r.ok, text |-> SubSeq(s, 2, j - 1) \o r.text, rest |-> r.rest]
    ELSE [ok |-> TRUE, text |-> <<>>, rest |-> s]

RECURSIVE FindOutsideCdata(_, _, _)
\* The first position from i at which tok stands outside every CDATA section; 0 if none.
FindOutsideCdata(s, tok, i) ==
  IF i > Len(s) THEN 0
  ELSE IF s[i] = tok THEN i
  ELSE IF s[i] = "<![CDATA["
    THEN LET j == IndexOfFrom(s, CdataEnd, i + 1)
         IN  IF j = 0 THEN 0 ELSE FindOutsideCdata(s, tok, j + Len(CdataEnd))
  ELSE FindOutsideCdata(s, tok, i + 1)

HasElement(envelope, tag) == FindOutsideCdata(envelope, tag, 1) # 0

\* The character data of the element opened by `open`, or Null when the element is
\* absent, a section is unterminated or `close` does not follow its sections.
ElementText(envelope, open, close) ==
  LET i == FindOutsideCdata(envelope, open, 1)
      r == ReadCdata(SubSeq(envelope, i + 1, Len(envelope)))
  IN  IF i = 0 \/ ~r.ok \/ r.rest = <<>> \/ Head(r.rest) # close THEN Null ELSE r.text

\* --------------------------------------------- cdataWrap applied on its own

MaxValueLen == 6

CdataBaseValues == SeqsUpTo({"]", ">", "a"}, MaxValueLen)

\* Plain values, values already escaped, and values already wrapped.
CdataValues ==
  CdataBaseValues
    \cup {ReplaceAll(v, CdataEnd, CdataSplit) : v \in CdataBaseValues}
    \cup {cdataWrap(v) : v \in CdataBaseValues}

\* A request whose two fragments are the caller's value.
OverrideBody(method, value) ==
  [method |-> method, soapUrl |-> <<"https://mie.example/soap">>, password |-> <<"body-pw">>,
   username |-> <<"body-user">>, clientKey |-> <<"body-ck">>, agentKey |-> <<"body-ak">>,
   source |-> <<"web">>, payload |-> FullPayload, aLogonXml |-> value, aArgument |-> value]

InitCdata ==
  /\ env = EnvWith(FALSE, FALSE, FALSE)
  /\ secretsFile \in {s \in SecretFiles : s.kind = "missing"}
  /\ pc = "input"
  /\ req = NoRequest
  /\ creds = Unresolved
  /\ outbound = <<>>
  /\ res = NoResponse
  /\ vendor = NoVendor
  /\ threw = FALSE
  /\ arg \in [value : CdataValues, method : {Method_KsoPutRequest, Method_KsoGetResult}]
  /\ ret = Null

WrapValue ==
  /\ pc = "input"
  /\ ret' = cdataWrap(arg.value)
  /\ pc' = "wrapped"
  /\ UNCHANGED <<env, secretsFile, req, creds, outbound, res, vendor, threw, arg>>

\* The envelope the handler of POST /api/mie sends for the request.
BuildEnvelope ==
  /\ pc = "input"
  /\ ret' = MieHandle(OverrideBody(arg.method, arg.value)).call.body
  /\ pc' = "built"
  /\ UNCHANGED <<env, secretsFile, req, creds, outbound, res, vendor, threw, arg>>

NextCdata == WrapValue \/ BuildEnvelope

SpecCdata == InitCdata /\ [][NextCdata]_vars

\* ------------------------------------- formatSmsPortalNumber applied on its own

MaxHead == 3

Str_123456789 == <<"1","2","3","4","5","6","7","8","9">>

\* The end of a number: nothing, or the last LocalDigits - MaxHead .. LocalDigits
\* digits, plain or written with separators.
PhoneTails ==
  {<<>>}
    \cup {SubSeq(Str_123456789, 1, n) : n \in (LocalDigits - MaxHead)..LocalDigits}
    \cup {<<" ">> \o SubSeq(Str_123456789, 1, 3) \o <<"-">> \o SubSeq(Str_123456789, 4, n) :
            n \in (LocalDigits - MaxHead)..LocalDigits}

PhoneInputs ==
  {Null} \cup {h \o tl : h \in SeqsUpTo({"0", "2", "7", "8", "+"}, MaxHead), tl \in PhoneTails}

InitPhone ==
  /\ env = EnvWith(FALSE, FALSE, FALSE)
  /\ secretsFile \in {s \in SecretFiles : s.kind = "missing"}
  /\ pc = "input"
  /\ req = NoRequest
  /\ creds = Unresolved
  /\ outbound = <<>>
  /\ res = NoResponse
  /\ vendor = NoVendor
  /\ threw = FALSE
  /\ arg \in PhoneInputs
  /\ ret = Null

FormatNumber ==
  /\ pc = "input"
  /\ ret' = formatSmsPortalNumber(arg)
  /\ pc' = "applied"
  /\ UNCHANGED <<env, secretsFile, req, creds, outbound, res, vendor, threw, arg>>

NextPhone == FormatNumber

SpecPhone == InitPhone /\ [][NextPhone]_vars

\* ------------------------------------------- the extraction applied on its own

MaxParts == 2

\* Pieces of a result's inner text.  form and value say what the piece was written
\* as: a RequestKey element, attribute or colon token and its key, or none of them.
KeyParts ==
  {[text |-> <<"<","R","e","q","u","e","s","t","K","e","y",">","A","B","C","1","2","3","<","/","R","e","q","u","e","s","t","K","e","y",">">>,
    form |-> "element", value |-> <<"A","B","C","1","2","3">>],
   [text |-> <<"<","r","e","q","u","e","s","t","k","e","y",">"," ","k","1"," ","<","/","R","E","Q","U","E","S","T","K","E","Y",">">>,
    form |-> "element", value |-> <<" ","k","1"," ">>],
   [text |-> <<"<","R","e","q","u","e","s","t","K","e","y",">"," ","<","/","R","e","q","u","e","s","t","K","e","y",">">>,
    form |-> "element", value |-> <<" ">>],
   [text |-> <<"<","R","e","q","u","e","s","t","K","e","y",">","<","/","R","e","q","u","e","s","t","K","e","y",">">>,
    form |-> "none", value |-> Null],
   [text |-> <<"<","R","e","q","u","e","s","t","K","e","y",">","A">>,
    form |-> "none", value |-> Null],
   [text |-> <<"<","r"," ","R","e","q","u","e","s","t","K","e","y","=","\"","X","Y","Z","\"","/",">">>,
    form |-> "attribute", value |-> <<"X","Y","Z">>],
   [text |-> <<"r","e","q","u","e","s","t","k","e","y"," ","="," ","\""," ","x"," ","y"," ","\"">>,
    form |-> "attribute", value |-> <<" ","x"," ","y"," ">>],
   [text |-> <<"R","e","q","u","e","s","t","K","e","y",":"," ","C","-","1",";">>,
    form |-> "colon", value |-> <<"C","-","1">>],
   [text |-> <<"j","u","n","k"," ">>,
    form |-> "none", value |-> Null]}

Method_Foo == <<"F","o","o">>

\* The documents laid around an inner text.
ResponseWraps == {"plain", "cased", "missing", "twice", "tagged", "before"}

InnerText(parts) == Concat([i \in 1..Len(parts) |-> parts[i].text])

ResponseText(wrap, parts) ==
  LET inner == InnerText(parts)
  IN  CASE wrap = "plain" ->
             <<"<","F","o","o","R","e","s","u","l","t",">">> \o inner \o <<"<","/","F","o","o","R","e","s","u","l","t",">">>
        [] wrap = "cased" ->
             <<"<","s","o","a","p",">","\n","<","f","o","o","r","e","s","u","l","t"," ","x","m","l","n","s","=","\"","u","\"",">">> \o inner
               \o <<"<","/","F","O","O","R","E","S","U","L","T",">","\n","<","/","s","o","a","p",">">>
        [] wrap = "missing" ->
             <<"<","O","t","h","e","r",">">> \o inner \o <<"<","/","O","t","h","e","r",">">>
        [] wrap = "twice" ->
             <<"<","F","o","o","R","e","s","u","l","t",">">> \o inner \o <<"<","/","F","o","o","R","e","s","u","l","t",">">>
               \o <<"<","F","o","o","R","e","s","u","l","t",">","<","R","e","q","u","e","s","t","K","e","y",">","L","A","T","E","<","/","R","e","q","u","e","s","t","K","e","y",">","<","/","F","o","o","R","e","s","u","l","t",">">>
        [] wrap = "tagged" ->
             <<"<","F","o","o","R","e","s","u","l","t"," ","R","e","q","u","e","s","t","K","e","y","=","\"","T","A","G","\"",">">> \o inner
               \o <<"<","/","F","o","o","R","e","s","u","l","t",">">>
        [] wrap = "before" ->
             <<"<","R","e","q","u","e","s","t","K","e","y",">","O","U","T","<","/","R","e","q","u","e","s","t","K","e","y",">","<","F","o","o","R","e","s","u","l","t",">">> \o inner
               \o <<"<","/","F","o","o","R","e","s","u","l","t",">">>

InitExtract ==
  /\ env = EnvWith(FALSE, FALSE, FALSE)
  /\ secretsFile \in {s \in SecretFiles : s.kind = "missing"}
  /\ pc = "input"
  /\ req = NoRequest
  /\ creds = Unresolved
  /\ outbound = <<>>
  /\ res = NoResponse
  /\ vendor = NoVendor
  /\ threw = FALSE
  /\ arg \in [wrap : ResponseWraps, parts : SeqsUpTo(KeyParts, MaxParts)]
  /\ ret = Null

\* The handler's two extraction steps on a 2xx reply to a call of method Foo.
ExtractKey ==
  /\ pc = "input"
  /\ LET respText == ResponseText(arg.wrap, arg.parts)
         resultText == extractTagText(respText, Method_Foo \o Str_Result)
     IN  ret' = [result |-> resultText, requestKey |-> extractRequestKey(resultText),
                 response |-> MieAnswer(OverrideBody(Method_Foo, Null), 200, respText)]
  /\ pc' = "applied"
  /\ UNCHANGED <<env, secretsFile, req, creds, outbound, res, vendor, threw, arg>>

NextExtract == ExtractKey

SpecExtract == InitExtract /\ [][NextExtract]_vars

\* =================================================================== claims

\* The sources of a secret, read from the request, the environment and the file
\* directly: the body's field, the variable, the upper-case key, the lower-case key.
FileValue(key) == IF secretsFile.kind = "object" THEN secretsFile.json[key] ELSE Null

RECURSIVE FirstNonEmpty(_)
FirstNonEmpty(values) ==
  IF values = <<>> THEN Null
  ELSE IF Head(values) # Null /\ Head(values) # <<>> THEN Head(values)
  ELSE FirstNonEmpty(Tail(values))

MiePasswordAbsent ==
  /\ req.endpoint = "mie"
  /\ FirstNonEmpty(<<req.body.password, env.MIE_PASSWORD, FileValue("MIE_PASSWORD"),
                     FileValue("mie_password")>>) = Null

SmsSecretAbsent ==
  /\ req.endpoint \in {"send", "test", "generic"}
  /\ \/ FirstNonEmpty(<<env.SMS_CLIENT_ID, FileValue("SMS_CLIENT_ID"),
                        FileValue("sms_client_id")>>) = Null
     \/ FirstNonEmpty(<<env.SMS_CLIENT_SECRET, FileValue("SMS_CLIENT_SECRET"),
                        FileValue("sms_client_secret")>>) = Null

\* C1: while a request is handled whose required secret (the MIE password on
\* /api/mie; the SMS client id or client secret on the SMS endpoints) no source
\* supplies, no outbound call is ever made, and once the credentials were resolved
\* and found absent the request ends with a 400 response.
C1_MissingSecretEnds400 ==
  (MiePasswordAbsent \/ SmsSecretAbsent) =>
    /\ outbound = <<>>
    /\ pc \in {"idle", "done"}
    /\ (pc = "done" /\ creds.resolved => res.status = 400 /\ ~threw)

C1_Witness ==
  /\ pc = "done"
  /\ req.endpoint = "send"
  /\ SmsSecretAbsent
  /\ creds.resolved
  /\ creds.clientId # Null
  /\ creds.clientSecret = Null
  /\ res.status = 400
  /\ outbound = <<>>

\* The explicit checks of the handlers, read from the request and the sources.
SendMessageGiven == Truthy(req.body.message) /\ Trim(req.body.message) # <<>>

SendRecipientsGiven == req.body.recipients.kind = "array" /\ req.body.recipients.items # <<>>

NormalizedAt(i) == formatSmsPortalNumber(RawNumber(req.body.recipients.items[i]))

ValidRecipients == {i \in 1..Len(req.body.recipients.items) : NormalizedAt(i) # <<>>}

\* The request passes every check its handler makes: the required fields, the
\* recipients that normalize, the credentials.
ChecksPass ==
  \/ /\ req.endpoint = "mie"
     /\ Truthy(req.body.method)
     /\ Truthy(req.body.soapUrl)
     /\ ~MiePasswordAbsent
  \/ /\ req.endpoint = "send"
     /\ SendMessageGiven
     /\ SendRecipientsGiven
     /\ ValidRecipients # {}
     /\ ~SmsSecretAbsent
  \/ /\ req.endpoint \in {"test", "generic"}
     /\ ~SmsSecretAbsent

ValidationPasses ==
  \/ /\ req.endpoint = "mie"
     /\ Truthy(req.body.method)
     /\ Truthy(req.body.soapUrl)
     /\ ~MiePasswordAbsent
     /\ req.body.payload.kind # "null"
  \/ /\ req.endpoint = "send"
     /\ SendMessageGiven
     /\ SendRecipientsGiven
     /\ req.body.options.kind # "null"
     /\ ValidRecipients # {}
     /\ ~SmsSecretAbsent
  \/ /\ req.endpoint \in {"test", "generic"}
     /\ ~SmsSecretAbsent

MinOf(a, b) == IF a < b THEN a ELSE b

\* C3: on POST /api/mie, a non-2xx vendor reply is answered 502 with ok:false, the
\* soapAction, the soapUrl and a responseSnippet that is the first
\* min(2000, length) characters of the vendor body, and without the raw body; the
\* raw body (rawSoapResponse) is returned only for a 2xx reply.
C3_SnippetOn502 ==
  (pc = "done" /\ req.endpoint = "mie" /\ vendor.kind = "reply") =>
    IF vendor.status \in 200..299
      THEN /\ res.status = 200
           /\ res.rawSoapResponse = vendor.body
           /\ res.responseSnippet = Null
      ELSE /\ res.status = 502
           /\ res.ok = "false"
           /\ res.soapAction = <<"http://www.kroll.co.za/">> \o req.body.method
           /\ res.soapUrl = req.body.soapUrl
           /\ Len(res.responseSnippet) = MinOf(2000, Len(vendor.body))
           /\ \A i \in 1..Len(res.responseSnippet) : res.responseSnippet[i] = vendor.body[i]
           /\ res.rawSoapResponse = Null

C3_Witness ==
  /\ pc = "done"
  /\ req.endpoint = "mie"
  /\ vendor.kind = "reply"
  /\ vendor.status = 500
  /\ Len(vendor.body) > 2000
  /\ res.status = 502
  /\ Len(res.responseSnippet) = 2000

\* C4: every secret of the credential set (here the MIE user name and password and
\* the SMS client id and secret) takes the first non-empty of the request's value,
\* the environment variable, the file's upper-case key and the file's lower-case key.
C4_EverySecretMerged ==
  creds.resolved =>
    IF req.endpoint = "mie"
      THEN /\ Or(creds.password, Null)
                = FirstNonEmpty(<<req.body.password, env.MIE_PASSWORD,
                                  FileValue("MIE_PASSWORD"), FileValue("mie_password")>>)
           /\ Or(creds.username, Null)
                = FirstNonEmpty(<<req.body.username, env.MIE_USERNAME,
                                  FileValue("MIE_USERNAME"), FileValue("mie_username")>>)
      ELSE /\ creds.clientId
                = FirstNonEmpty(<<env.SMS_CLIENT_ID, FileValue("SMS_CLIENT_ID"),
                                  FileValue("sms_client_id")>>)
           /\ creds.clientSecret
                = FirstNonEmpty(<<env.SMS_CLIENT_SECRET, FileValue("SMS_CLIENT_SECRET"),
                                  FileValue("sms_client_secret")>>)

\* The destinations of the batch are those of the recipients that normalize to a
\* non-empty number, one each, in the recipients' order.
BatchMatches ==
  LET batch == outbound[1].body.messages
      Nth(k) == CHOOSE i \in ValidRecipients :
                  Cardinality({j \in ValidRecipients : j <= i}) = k
  IN  /\ Len(batch) = Cardinality(ValidRecipients)
      /\ \A k \in 1..Len(batch) :
           /\ batch[k].destination # <<>>
           /\ batch[k].destination = NormalizedAt(Nth(k))
           /\ batch[k].content = Trim(req.body.message)

SendOutcome ==
  /\ (Len(outbound) = 1 => BatchMatches)
  /\ (pc = "done" /\ ValidRecipients = {} => res.status = 400 /\ outbound = <<>>)

\* C5 as claimed: on POST /api/sms/send with a non-empty message and a non-empty
\* recipients array, the forwarded batch holds, in recipient order, exactly one
\* message for each recipient that normalizes to a valid number and none with an
\* empty destination; with no valid recipient the answer is 400 and no call is made.
C5_AsClaimed ==
  (req.endpoint = "send" /\ SendMessageGiven /\ SendRecipientsGiven) => SendOutcome

\* C5 as amended: the same, for a body whose options is absent or an object; a
\* null options raises before the batch is built and the answer is 500.
C5_BatchOfValidRecipients ==
  /\ (req.endpoint = "send" /\ SendMessageGiven /\ SendRecipientsGiven
        /\ req.body.options.kind # "null") => SendOutcome
  /\ (req.endpoint = "send" /\ SendMessageGiven /\ SendRecipientsGiven
        /\ req.body.options.kind = "null") => res.status = 500 /\ outbound = <<>>

C5_Witness ==
  /\ req.endpoint = "send"
  /\ pc = "awaitSms"
  /\ Len(req.body.recipients.items) = 2
  /\ ValidRecipients = {2}
  /\ Len(outbound[1].body.messages) = 1
  /\ outbound[1].body.messages[1].destination
       = <<"2","7","8","3","1","2","3","4","5","6","7">>

\* C6: on the generic passthrough, with credentials and a vendor reply, the
\* response carries the vendor's content-type, status and body unchanged.
C6_RelayedVerbatim ==
  (pc = "done" /\ req.endpoint = "generic" /\ vendor.kind = "reply") =>
    /\ res.status = vendor.status
    /\ res.contentType = vendor.contentType
    /\ res.body = vendor.body

AllowListed ==
  {<<"K","s","o","P","u","t","R","e","q","u","e","s","t">>,
   <<"K","s","o","P","u","t","B","r","a","n","c","h">>,
   <<"K","s","o","P","u","t","R","e","q","u","e","s","t","R","e","d","i","r","e","c","t">>}

\* C7: the envelope sent for a validated POST /api/mie holds the logon element
\* always, and the aArgument element if and only if the method name equals, letter
\* case apart, one of KsoPutRequest, KsoPutBranch, KsoPutRequestRedirect.
C7_ArgumentIffAllowListed ==
  pc = "awaitMie" =>
    /\ HasElement(outbound[1].body, "<aLogonXml>")
    /\ HasElement(outbound[1].body, "<aArgument>")
         <=> \E n \in AllowListed : ToLowerCase(n) = ToLowerCase(req.body.method)

C7_Witness ==
  /\ pc = "awaitMie"
  /\ req.body.method = Method_KSOPUTBRANCH
  /\ req.body.aArgument = Null
  /\ HasElement(outbound[1].body, "<aArgument>")

\* C8: reading cdataWrap's output as CDATA sections and concatenating them gives
\* the value back, whatever ']]>' it holds and also when it is already escaped or
\* wrapped; and both fragments of a built envelope, a caller's overrides included,
\* read back as they were given.
C8_CdataRoundTrip ==
  /\ pc = "wrapped" => ReadCdata(ret) = [ok |-> TRUE, text |-> arg.value, rest |-> <<>>]
  /\ pc = "built" =>
       LET body == OverrideBody(arg.method, arg.value)
       IN  /\ ElementText(ret, "<aLogonXml>", "</aLogonXml>")
                = (IF arg.value = <<>> THEN MieLogonXml(body, body.password) ELSE arg.value)
           /\ (\E n \in AllowListed : ToLowerCase(n) = ToLowerCase(arg.method)) =>
                ElementText(ret, "<aArgument>", "</aArgument>")
                  = (IF arg.value = <<>> THEN MieArgument(body) ELSE arg.value)

C8_Witness ==
  /\ pc = "wrapped"
  /\ arg.value = <<"]", "]", ">", "]", "]", ">">>
  /\ ReadCdata(ret).text = arg.value

\* C9: the normalized number is the input's digits d, turned by the first rule
\* that applies: d empty -> empty; d starts with 27 -> d; d starts with 0 -> 27 and
\* d without that zero; d has 9 digits -> 27 and d; otherwise d.
C9_NumberRules ==
  pc = "applied" =>
    LET d == IF arg = Null THEN <<>>
             ELSE SelectSeq(arg, LAMBDA c : c \in {"0","1","2","3","4","5","6","7","8","9"})
    IN  ret = IF d = <<>> THEN <<>>
              ELSE IF Len(d) >= 2 /\ d[1] = "2" /\ d[2] = "7" THEN d
              ELSE IF d[1] = "0" THEN <<"2", "7">> \o SubSeq(d, 2, Len(d))
              ELSE IF Len(d) = 9 THEN <<"2", "7">> \o d
              ELSE d

C9_Witness ==
  /\ pc = "applied"
  /\ arg = <<"0"," ","1","2","3","-","4","5","6","7","8","9">>
  /\ ret = <<"2","7","1","2","3","4","5","6","7","8","9">>

\* The first piece of the inner text written in the given form.
FirstPart(parts, form) ==
  parts[CHOOSE i \in 1..Len(parts) :
          /\ parts[i].form = form
          /\ \A j \in 1..(i - 1) : parts[j].form # form]

HasPart(parts, form) == \E i \in 1..Len(parts) : parts[i].form = form

ExpectedKey(wrap, parts) ==
  IF wrap = "missing" THEN Null
  ELSE IF HasPart(parts, "element") THEN Trim(FirstPart(parts, "element").value)
  ELSE IF HasPart(parts, "attribute") THEN Trim(FirstPart(parts, "attribute").value)
  ELSE IF HasPart(parts, "colon") THEN Trim(FirstPart(parts, "colon").value)
  ELSE Null

\* C10: the result is the inner text of the first <FooResult> tag, found whatever
\* its letter case and up to its first closing tag; the request key is the trimmed
\* key of the first element form in it, else of the first attribute form, else of
\* the first colon form, and is absent when the tag is missing or no form occurs.
C10_RequestKeyOrder ==
  pc = "applied" =>
    /\ ret.result = (IF arg.wrap = "missing" THEN Null ELSE InnerText(arg.parts))
    /\ ret.requestKey = ExpectedKey(arg.wrap, arg.parts)
    /\ ret.response.requestKey
         = (IF ExpectedKey(arg.wrap, arg.parts) = <<>> THEN Null
            ELSE ExpectedKey(arg.wrap, arg.parts))
    /\ ret.response.reference = ret.response.requestKey

C10_Witness ==
  /\ pc = "applied"
  /\ arg.wrap = "tagged"
  /\ Len(arg.parts) = 2
  /\ arg.parts[1].form = "attribute"
  /\ arg.parts[2].form = "element"
  /\ ret.requestKey = <<"A","B","C","1","2","3">>

====
